---- MODULE Spec2Model ----
(***************************************************************************)
(* A model of vprof's memory profiler (vprof/memory_profile.py):           *)
(*   - _CodeEventsTracker: the sys.settrace hook, the raw event log and    *)
(*     the code_events coalescing pass;                                    *)
(*   - the object census helpers (_remove_duplicates ... _format_obj_count)*)
(*   - MemoryProfile.run and its four run_as_* dispatch targets.           *)
(***************************************************************************)
EXTENDS Integers, Sequences, FiniteSets, TLC

\* ------------------------------------------------------------------ bounds

\* longest raw event log (_events_list) explored
MaxEvents == 2
\* most coalescing passes explored per tracker with an empty result list
MaxPasses == 2

\* ------------------------------------------------------ Python value model

\* Python values that end up in event tuples: int, float (an exact fraction
\* num/den), str.  Every value has the same record shape.
PyInt(n) == [ty |-> "int", num |-> n, den |-> 1, s |-> ""]

PyFloat(n, d) == [ty |-> "float", num |-> n, den |-> d, s |-> ""]

PyStr(x) == [ty |-> "str", num |-> 0, den |-> 1, s |-> x]

IsNum(a) == a.ty \in {"int", "float"}

\* Python's ==: numbers compare by value, strings by content, a number never
\* equals a string.
PyEq(a, b) ==
    IF IsNum(a) /\ IsNum(b) THEN a.num * b.den = b.num * a.den
    ELSE IF a.ty = "str" /\ b.ty = "str" THEN a.s = b.s
    ELSE FALSE

\* Python's < on two numbers.
PyLt(a, b) == a.num * b.den < b.num * a.den

\* seq[i] with Python's 0-based index; seq[-1] is At(seq, Len(seq) - 1)
At(seq, i) == seq[i + 1]

\* seq with seq[i] = v (0-based), as an item assignment on a list
SetAt(seq, i, v) == [seq EXCEPT ![i + 1] = v]

Last(seq) == seq[Len(seq)]

\* Optional values: None is the empty sequence, a value v is <<v>>
None == <<>>

Some(v) == <<v>>

_BYTES_IN_MB == 1024 * 1024

\* ------------------------------------------------------------- code units

\* Code objects of the profiled program: a module body, a function defined
\* in it, a function nested in that one, and a library function the target
\* calls that is never registered.
TargetCodes == {"mod", "fn", "inner", "lib"}

\* All code objects whose frames the hook may be called for: those of the
\* profiled program and the code of the profiler's own methods (add_code,
\* compute_mem_overhead), which is never registered.
Codes == TargetCodes \cup {"vprof"}

\* code.co_consts restricted to code objects (filter(inspect.iscode, ...))
CoConsts(c) ==
    CASE c = "mod" -> {"fn"}
      [] c = "fn" -> {"inner"}
      [] OTHER -> {}

co_name(c) ==
    CASE c = "mod" -> "<module>"
      [] c = "fn" -> "fn"
      [] c = "inner" -> "fn"
      [] c = "vprof" -> "compute_mem_overhead"
      [] OTHER -> "lib"

co_filename(c) ==
    CASE c = "lib" -> "lib.py"
      [] c = "vprof" -> "vprof/memory_profile.py"
      [] OTHER -> "target.py"

\* the code objects the run_as_* methods hand to add_code
EntryCodes == {"mod", "fn"}

\* resident set sizes (bytes) psutil reports for the process
RssValues == {0, 1}

\* f_lineno values of the frames the hook is called with
Lines == {1, 2}

\* the event kinds the interpreter passes to a trace function
TraceEventKinds == {"line", "call", "return"}

\* ---------------------------------------------------------------- trackers

Trackers == {"t1", "t2"}

\* values of sys.gettrace(): no hook, a foreign hook, or the bound method
\* _trace_memory_usage of a tracker (named by the tracker)
ForeignHooks == {"None", "ext"}

Hooks == ForeignHooks \cup Trackers

VARIABLES
    hook,                     \* sys.gettrace()
    initial_rss_size,         \* builtins.initial_rss_size
    constructed,              \* tracker -> __init__ has run
    all_code,                 \* tracker -> _all_code
    events_list,              \* tracker -> _events_list
    original_trace_function,  \* tracker -> _original_trace_function
    resulting_events,         \* tracker -> _resulting_events
    mem_overhead,             \* tracker -> mem_overhead (None or <<int>>)
    scopes,                   \* the with-scopes entered and not yet left
    hookAtEnter,              \* tracker -> the hook found by __enter__
    reads,                    \* tracker -> history of code_events reads
    last,                     \* the operation that produced this state
    existing_objects,         \* MemoryProfile.run: existing_objects
    new_objects,              \* MemoryProfile.run: new_objects
    new_obj_count,            \* MemoryProfile.run: new_obj_count
    result_obj_count,         \* MemoryProfile.run: result_obj_count
    pretty_obj_count,         \* MemoryProfile.run: pretty_obj_count
    pc,                       \* MemoryProfile.run: the statement reached
    mode,                     \* the run_as_* method get_run_dispatcher chose
    pending,                  \* the exception in flight inside run_as_*
    outcome,                  \* what the latest call of run gave its caller
    previous,                 \* how the call of run before this one ended
    heap,                     \* the live objects of the target, as gc lists them
    hookAsFound,              \* sys.gettrace() when run was called
    fault                     \* what failed during this call of run, if anything

trackerVars == <<constructed, all_code, events_list, original_trace_function,
                 resulting_events, mem_overhead>>

censusVars == <<existing_objects, new_objects, new_obj_count, result_obj_count,
                pretty_obj_count>>

\* the variables of run other than pc
runRest == <<mode, pending, outcome, previous, heap, hookAsFound, fault>>

runVars == <<pc, runRest>>

vars == <<hook, initial_rss_size, trackerVars, scopes, hookAtEnter, reads, last,
          censusVars, runVars>>

\* --------------------------------------------------- _CodeEventsTracker

\* an add_code that registers the unit it is given and nothing nested in it
AddCodeEntryOnly(registry, code) == registry \cup {code}

\* add_code: the registry after registering code and, recursively, the code
\* constants of every unit that was not yet registered
RECURSIVE AddCode(_, _)
AddCode(registry, code) ==
    IF code \in registry THEN registry
    ELSE LET AddAll[todo \in SUBSET Codes] ==
                 IF todo = {} THEN registry \cup {code}
                 ELSE LET sub == CHOOSE x \in todo : TRUE
                      IN AddCode(AddAll[todo \ {sub}], sub)
         IN AddAll[CoConsts(code)]

\* the tuple _trace_memory_usage appends
RawEvent(lineno, mem, code) ==
    <<PyInt(lineno), PyInt(mem), PyStr(co_name(code)), PyStr(co_filename(code))>>

\* a hook that records every kind of step of registered code
TraceMemoryUsageAnyEvent(log, registry, event, code, lineno, curr_memory) ==
    IF code \in registry
    THEN Append(log, RawEvent(lineno, curr_memory, code))
    ELSE log

\* a hook that records the line steps of every unit, registered or not
TraceMemoryUsageAnyCode(log, registry, event, code, lineno, curr_memory) ==
    IF event = "line"
    THEN Append(log, RawEvent(lineno, curr_memory, code))
    ELSE log

\* _trace_memory_usage: the raw log after the hook ran for one step
TraceMemoryUsage(log, registry, event, code, lineno, curr_memory) ==
    IF event = "line" /\ code \in registry
    THEN Append(log, RawEvent(lineno, curr_memory, code))
    ELSE log

\* float(mem - self.mem_overhead) / _BYTES_IN_MB
MemInMb(mem, overhead) == PyFloat(mem.num - overhead, _BYTES_IN_MB)

\* the test of lines 131-135 on the last resulting event
SameAsLast(res, lineno, func, fname, mem_in_mb) ==
    /\ res # <<>>
    /\ PyEq(At(Last(res), 0), lineno)
    /\ PyEq(At(Last(res), 2), func)
    /\ PyEq(At(Last(res), 3), fname)
    /\ PyLt(At(Last(res), 1), mem_in_mb)

\* an iteration whose test reads the last event by its own layout (line at
\* 1, value at 2, names at 3 and 4) and then makes the assignment of line
\* 136 as it is written, to position 1
CoalesceStepUpdatesInPlace(res, i, ev, overhead) ==
    LET mem_in_mb == MemInMb(At(ev, 1), overhead)
    IN IF /\ res # <<>>
          /\ PyEq(At(Last(res), 1), At(ev, 0))
          /\ PyEq(At(Last(res), 3), At(ev, 2))
          /\ PyEq(At(Last(res), 4), At(ev, 3))
          /\ PyLt(At(Last(res), 2), mem_in_mb)
       THEN SetAt(res, Len(res) - 1, SetAt(Last(res), 1, mem_in_mb))
       ELSE Append(res, <<PyInt(i + 1), At(ev, 0), mem_in_mb, At(ev, 2), At(ev, 3)>>)

\* an iteration that numbers the events it appends from 0
CoalesceStepFromZero(res, i, ev, overhead) ==
    Append(res, <<PyInt(i), At(ev, 0), MemInMb(At(ev, 1), overhead),
                  At(ev, 2), At(ev, 3)>>)

\* one iteration of the loop of code_events, for enumerate index i
CoalesceStep(res, i, ev, overhead) ==
    LET lineno == At(ev, 0)
        mem == At(ev, 1)
        func == At(ev, 2)
        fname == At(ev, 3)
        mem_in_mb == MemInMb(mem, overhead)
    IN IF SameAsLast(res, lineno, func, fname, mem_in_mb)
       THEN SetAt(res, Len(res) - 1, SetAt(Last(res), 1, mem_in_mb))
       ELSE Append(res, <<PyInt(i + 1), lineno, mem_in_mb, func, fname>>)

\* a loop that handles the last of the first n raw events only
CoalesceLastOnly(res, log, n, overhead) ==
    IF n = 0 THEN res ELSE CoalesceStep(res, n - 1, log[n], overhead)

\* the loop of code_events over the first n raw events, started on res
RECURSIVE Coalesce(_, _, _, _)
Coalesce(res, log, n, overhead) ==
    IF n = 0 THEN res
    ELSE CoalesceStep(Coalesce(res, log, n - 1, overhead), n - 1, log[n], overhead)

\* a read of code_events that runs the loop whatever the result list holds
RunsPassAlways(res) == TRUE

\* whether a read of code_events runs the loop: the result list is falsy
RunsPass(res) == res = <<>>

\* code_events raises TypeError (int - None) on the first raw event when
\* compute_mem_overhead was never called
CodeEventsRaises(res, log, overhead) ==
    RunsPass(res) /\ log # <<>> /\ overhead = None

\* self._resulting_events after a read of code_events, which is also the
\* value the read returns
CodeEvents(res, log, overhead) ==
    IF ~RunsPass(res) THEN res
    ELSE IF log = <<>> THEN <<>>
    ELSE Coalesce(res, log, Len(log), overhead[1])

\* an __exit__ that leaves the tracker's hook installed
ExitHookKeepsTracker(t) == hook

\* the hook __exit__ installs
ExitHook(t) == original_trace_function[t]

\* the hook __init__ remembers
InitHook == hook

\* what is known of the reads of code_events of one tracker: the value the
\* first and the latest read returned, the number of times the loop was run,
\* and the raw log and baseline the latest run of the loop worked on
FreshReads == [first |-> None, latest |-> None, passes |-> 0,
               log |-> <<>>, overhead |-> None]

\* the history of reads after one more read of code_events
ReadsAfter(r, res, log, overhead) ==
    [first |-> IF r.first = None THEN Some(CodeEvents(res, log, overhead))
               ELSE r.first,
     latest |-> Some(CodeEvents(res, log, overhead)),
     passes |-> IF RunsPass(res) THEN r.passes + 1 ELSE r.passes,
     log |-> IF RunsPass(res) THEN log ELSE r.log,
     overhead |-> IF RunsPass(res) THEN overhead ELSE r.overhead]

\* what __init__ does to the tracker
InitEffect(t) ==
    /\ constructed' = [constructed EXCEPT ![t] = TRUE]
    /\ all_code' = [all_code EXCEPT ![t] = {}]
    /\ events_list' = [events_list EXCEPT ![t] = <<>>]
    /\ original_trace_function' = [original_trace_function EXCEPT ![t] = InitHook]
    /\ resulting_events' = [resulting_events EXCEPT ![t] = <<>>]
    /\ mem_overhead' = [mem_overhead EXCEPT ![t] = None]
    /\ reads' = [reads EXCEPT ![t] = FreshReads]
    /\ UNCHANGED <<hook, initial_rss_size, scopes, hookAtEnter>>

\* what add_code(code) does
AddCodeEffect(t, code) ==
    /\ all_code' = [all_code EXCEPT ![t] = AddCode(all_code[t], code)]
    /\ UNCHANGED <<hook, initial_rss_size, constructed, events_list,
                   original_trace_function, resulting_events, mem_overhead,
                   scopes, hookAtEnter, reads>>

\* what compute_mem_overhead() does, the OS reporting rss
ComputeMemOverheadEffect(t, rss) ==
    /\ mem_overhead' = [mem_overhead EXCEPT ![t] = Some(rss - initial_rss_size)]
    /\ UNCHANGED <<hook, initial_rss_size, constructed, all_code, events_list,
                   original_trace_function, resulting_events, scopes,
                   hookAtEnter, reads>>

\* what __enter__ does
EnterEffect(t) ==
    /\ hook' = t
    /\ scopes' = Append(scopes, t)
    /\ hookAtEnter' = [hookAtEnter EXCEPT ![t] = hook]
    /\ UNCHANGED <<initial_rss_size, trackerVars, reads>>

\* what __exit__ does
ExitEffect(t) ==
    /\ hook' = ExitHook(t)
    /\ scopes' = SubSeq(scopes, 1, Len(scopes) - 1)
    /\ UNCHANGED <<initial_rss_size, trackerVars, hookAtEnter, reads>>

\* __init__
New(t) ==
    /\ ~constructed[t]
    /\ InitEffect(t)
    /\ last' = [op |-> "__init__", t |-> t]
    /\ UNCHANGED <<censusVars, runVars>>

\* add_code(code)
AddCodeCall(t, code) ==
    /\ constructed[t]
    /\ AddCodeEffect(t, code)
    /\ last' = [op |-> "add_code", t |-> t]
    /\ UNCHANGED <<censusVars, runVars>>

\* compute_mem_overhead()
ComputeMemOverhead(t, rss) ==
    /\ constructed[t]
    /\ ComputeMemOverheadEffect(t, rss)
    /\ last' = [op |-> "compute_mem_overhead", t |-> t]
    /\ UNCHANGED <<censusVars, runVars>>

\* __enter__
Enter(t) ==
    /\ constructed[t]
    /\ \A k \in 1..Len(scopes) : scopes[k] # t
    /\ EnterEffect(t)
    /\ last' = [op |-> "__enter__", t |-> t]
    /\ UNCHANGED <<censusVars, runVars>>

\* __exit__, of the innermost open with-scope
Exit(t) ==
    /\ scopes # <<>>
    /\ Last(scopes) = t
    /\ ExitEffect(t)
    /\ last' = [op |-> "__exit__", t |-> t]
    /\ UNCHANGED <<censusVars, runVars>>

\* sys.settrace(h) called by code other than the tracker
SetTrace(h) ==
    /\ h \in ForeignHooks
    /\ h # hook
    /\ hook' = h
    /\ last' = [op |-> "settrace", t |-> h]
    /\ UNCHANGED <<initial_rss_size, trackerVars, scopes, hookAtEnter, reads>>
    /\ UNCHANGED <<censusVars, runVars>>

\* the interpreter calls the installed hook, a tracker's _trace_memory_usage,
\* for one step of a frame running code at line lineno, the OS reporting rss
TraceEffect(event, code, lineno, rss) ==
    /\ hook \in Trackers
    /\ Len(events_list[hook]) < MaxEvents
    /\ events_list' = [events_list EXCEPT ![hook] =
           TraceMemoryUsage(events_list[hook], all_code[hook], event, code,
                            lineno, rss)]
    /\ UNCHANGED <<hook, initial_rss_size, constructed, all_code,
                   original_trace_function, resulting_events, mem_overhead,
                   scopes, hookAtEnter, reads>>

TraceCall(event, code, lineno, rss) ==
    /\ TraceEffect(event, code, lineno, rss)
    /\ last' = [op |-> "trace", t |-> hook]
    /\ UNCHANGED <<censusVars, runVars>>

\* a read of the code_events property
ReadCodeEvents(t) ==
    /\ constructed[t]
    /\ ~RunsPass(resulting_events[t]) \/ reads[t].passes < MaxPasses
    /\ IF CodeEventsRaises(resulting_events[t], events_list[t], mem_overhead[t])
       THEN /\ last' = [op |-> "code_events raised", t |-> t]
            /\ UNCHANGED <<resulting_events, reads>>
       ELSE /\ resulting_events' = [resulting_events EXCEPT ![t] =
                   CodeEvents(resulting_events[t], events_list[t], mem_overhead[t])]
            /\ reads' = [reads EXCEPT ![t] =
                   ReadsAfter(reads[t], resulting_events[t], events_list[t],
                              mem_overhead[t])]
            /\ last' = [op |-> "code_events", t |-> t]
    /\ UNCHANGED <<hook, initial_rss_size, constructed, all_code, events_list,
                   original_trace_function, mem_overhead, scopes, hookAtEnter>>
    /\ UNCHANGED <<censusVars, runVars>>

\* ------------------------------------------------------- object census

\* Objects gc.get_objects() may list: three lists, instances of two classes
\* A and B of the target, and a frame.  An object's name is its id().
Objects == {"l1", "l2", "l3", "a1", "a2", "b1", "fr"}

\* type(obj)
TypeOf(o) ==
    CASE o \in {"l1", "l2", "l3", "existing_objects", "prof._resulting_events"}
             -> "list"
      [] o \in {"prof.__dict__", "module.__dict__"} -> "dict"
      [] o \in {"a1", "a2"} -> "A"
      [] o = "b1" -> "B"
      [] o = "fr" -> "frame"
      [] o = "prof" -> "_CodeEventsTracker"
      [] o = "prof._events_list" -> "deque"
      [] o = "prof._all_code" -> "set"

\* inspect.isframe(obj)
IsFrame(o) == TypeOf(o) = "frame"

\* the name the regex of _format_obj_count takes out of repr(obj_type):
\* "<type 'list'>" gives list, "<class '__main__.A'>" gives __main__.A
ReprName(ty) ==
    CASE ty = "A" -> "__main__.A"
      [] ty = "B" -> "__main__.B"
      [] ty = "_CodeEventsTracker" -> "vprof.memory_profile._CodeEventsTracker"
      [] ty = "deque" -> "collections.deque"
      [] OTHER -> ty

\* all sequences over S of length at most n
SeqsUpTo(S, n) == UNION {[1..k -> S] : k \in 0..n}

\* _remove_duplicates: the first occurrence of every id, in order
RECURSIVE RemoveDuplicates(_)
RemoveDuplicates(objects) ==
    IF objects = <<>> THEN <<>>
    ELSE LET front == SubSeq(objects, 1, Len(objects) - 1)
             obj == Last(objects)
             uniq == RemoveDuplicates(front)
         IN IF \E k \in 1..Len(front) : front[k] = obj
            THEN uniq
            ELSE Append(uniq, obj)

\* the generator (obj for obj in objects if not inspect.isframe(obj))
RECURSIVE NotFrames(_)
NotFrames(objects) ==
    IF objects = <<>> THEN <<>>
    ELSE IF IsFrame(Head(objects)) THEN NotFrames(Tail(objects))
    ELSE <<Head(objects)>> \o NotFrames(Tail(objects))

\* a processing that removes duplicates and lets frames through
ProcessInMemoryObjectsWithFrames(objects) == RemoveDuplicates(objects)

\* _process_in_memory_objects
ProcessInMemoryObjects(objects) == RemoveDuplicates(NotFrames(objects))

\* A collections.Counter is the sequence of its (key, count) items in
\* insertion order.
CounterGet(c, key) ==
    IF \E k \in 1..Len(c) : c[k][1] = key
    THEN c[CHOOSE k \in 1..Len(c) : c[k][1] = key][2]
    ELSE 0

\* c[key] = count
CounterSet(c, key, count) ==
    IF \E k \in 1..Len(c) : c[k][1] = key
    THEN [k \in 1..Len(c) |-> IF c[k][1] = key THEN <<key, count>> ELSE c[k]]
    ELSE Append(c, <<key, count>>)

\* Counter(iterable of keys)
RECURSIVE CounterOf(_)
CounterOf(keys) ==
    IF keys = <<>> THEN <<>>
    ELSE LET c == CounterOf(SubSeq(keys, 1, Len(keys) - 1))
         IN CounterSet(c, Last(keys), CounterGet(c, Last(keys)) + 1)

\* the items of c1 - c2 that come from c1: count - c2[key], kept when positive
RECURSIVE SubFromSelf(_, _)
SubFromSelf(c1, c2) ==
    IF c1 = <<>> THEN <<>>
    ELSE LET newcount == Head(c1)[2] - CounterGet(c2, Head(c1)[1])
             rest == SubFromSelf(Tail(c1), c2)
         IN IF newcount > 0 THEN <<<<Head(c1)[1], newcount>>>> \o rest ELSE rest

\* the items of c1 - c2 that come from c2 alone: negative counts, negated
RECURSIVE SubFromOther(_, _)
SubFromOther(c1, c2) ==
    IF c2 = <<>> THEN <<>>
    ELSE LET rest == SubFromOther(c1, Tail(c2))
         IN IF (\A k \in 1..Len(c1) : c1[k][1] # Head(c2)[1]) /\ Head(c2)[2] < 0
            THEN <<<<Head(c2)[1], 0 - Head(c2)[2]>>>> \o rest
            ELSE rest

\* Counter.__sub__: c1 - c2 keeps only positive counts
CounterSub(c1, c2) == SubFromSelf(c1, c2) \o SubFromOther(c1, c2)

\* _get_object_count_by_type
GetObjectCountByType(objects) ==
    CounterOf([k \in 1..Len(objects) |-> TypeOf(objects[k])])

\* the difference taken the wrong way round
GetObjCountDifferenceSwapped(objs1, objs2) ==
    CounterSub(GetObjectCountByType(ProcessInMemoryObjects(objs2)),
               GetObjectCountByType(ProcessInMemoryObjects(objs1)))

\* _get_obj_count_difference
GetObjCountDifference(objs1, objs2) ==
    CounterSub(GetObjectCountByType(ProcessInMemoryObjects(objs1)),
               GetObjectCountByType(ProcessInMemoryObjects(objs2)))

\* the property obj_overhead of a tracker: the tracker, its result list, its
\* raw log and its registry, counted by type, and two dicts more
ObjOverhead ==
    LET overhead == <<"prof", "prof._resulting_events", "prof._events_list",
                      "prof._all_code">>
        overhead_count == GetObjectCountByType(overhead)
    IN CounterSet(overhead_count, "dict", CounterGet(overhead_count, "dict") + 2)

\* result_obj_count[list] -= 1
ListCorrection(c) == CounterSet(c, "list", CounterGet(c, "list") - 1)

\* the test of line 77 on one count
Reported(count) == count # 0

\* the loop of _format_obj_count: (name, count) of the items it keeps
RECURSIVE FormatItems(_)
FormatItems(c) ==
    IF c = <<>> THEN <<>>
    ELSE IF Reported(Head(c)[2])
    THEN <<<<ReprName(Head(c)[1]), Head(c)[2]>>>> \o FormatItems(Tail(c))
    ELSE FormatItems(Tail(c))

\* an insertion that puts x before its equals: a sort that is not stable
InsertByCountBeforeEquals(sorted, x) ==
    LET n == Cardinality({k \in 1..Len(sorted) : sorted[k][2] > x[2]})
    IN SubSeq(sorted, 1, n) \o <<x>> \o SubSeq(sorted, n + 1, Len(sorted))

\* x put into a list sorted by count, largest first, after its equals
InsertByCount(sorted, x) ==
    LET n == Cardinality({k \in 1..Len(sorted) : sorted[k][2] >= x[2]})
    IN SubSeq(sorted, 1, n) \o <<x>> \o SubSeq(sorted, n + 1, Len(sorted))

\* sorted(result, key=operator.itemgetter(1), reverse=True): a stable sort
RECURSIVE SortedByCount(_)
SortedByCount(items) ==
    IF items = <<>> THEN <<>>
    ELSE InsertByCount(SortedByCount(SubSeq(items, 1, Len(items) - 1)),
                       Last(items))

\* _format_obj_count
FormatObjCount(c) == SortedByCount(FormatItems(c))

\* line 227
Diff ==
    /\ pc = "diff"
    /\ new_obj_count' = GetObjCountDifference(new_objects, existing_objects)
    /\ pc' = "overhead"
    /\ last' = [op |-> "diff", t |-> "None"]
    /\ UNCHANGED <<existing_objects, new_objects, result_obj_count,
                   pretty_obj_count>>
    /\ UNCHANGED <<hook, initial_rss_size, trackerVars, scopes, hookAtEnter, reads>>
    /\ UNCHANGED runRest

\* line 228
SubtractOverhead ==
    /\ pc = "overhead"
    /\ result_obj_count' = CounterSub(new_obj_count, ObjOverhead)
    /\ pc' = "list"
    /\ last' = [op |-> "overhead", t |-> "None"]
    /\ UNCHANGED <<existing_objects, new_objects, new_obj_count, pretty_obj_count>>
    /\ UNCHANGED <<hook, initial_rss_size, trackerVars, scopes, hookAtEnter, reads>>
    /\ UNCHANGED runRest

\* line 231
CorrectList ==
    /\ pc = "list"
    /\ result_obj_count' = ListCorrection(result_obj_count)
    /\ pc' = "format"
    /\ last' = [op |-> "list", t |-> "None"]
    /\ UNCHANGED <<existing_objects, new_objects, new_obj_count, pretty_obj_count>>
    /\ UNCHANGED <<hook, initial_rss_size, trackerVars, scopes, hookAtEnter, reads>>
    /\ UNCHANGED runRest

\* line 232
Format ==
    /\ pc = "format"
    /\ pretty_obj_count' = FormatObjCount(result_obj_count)
    /\ pc' = "assemble"
    /\ last' = [op |-> "format", t |-> "None"]
    /\ UNCHANGED <<existing_objects, new_objects, new_obj_count, result_obj_count>>
    /\ UNCHANGED <<hook, initial_rss_size, trackerVars, scopes, hookAtEnter, reads>>
    /\ UNCHANGED runRest

\* ------------------------------------------------ specification: one tracker

InitTrackers ==
    /\ constructed = [t \in Trackers |-> FALSE]
    /\ all_code = [t \in Trackers |-> {}]
    /\ events_list = [t \in Trackers |-> <<>>]
    /\ original_trace_function = [t \in Trackers |-> "None"]
    /\ resulting_events = [t \in Trackers |-> <<>>]
    /\ mem_overhead = [t \in Trackers |-> None]
    /\ scopes = <<>>
    /\ hookAtEnter = [t \in Trackers |-> "None"]
    /\ reads = [t \in Trackers |-> FreshReads]

InitCensus ==
    /\ existing_objects = <<>>
    /\ new_objects = <<>>
    /\ new_obj_count = <<>>
    /\ result_obj_count = <<>>
    /\ pretty_obj_count = <<>>

NoOutcome == [kind |-> "none", exc |-> "None", cause |-> "None",
              codeEvents |-> <<>>, totalEvents |-> 0, objectsCount |-> <<>>]

NoFault == [by |-> "None", exc |-> "None"]

InitRun ==
    /\ pc = "idle"
    /\ mode = "None"
    /\ pending = "None"
    /\ outcome = NoOutcome
    /\ previous = [kind |-> "none", exc |-> "None"]
    /\ heap = <<>>
    /\ hookAsFound = "None"
    /\ fault = NoFault

\* the interpreter starts with no trace function; the bootstrap has stored
\* the resident set size it read
Init ==
    /\ hook = "None"
    /\ initial_rss_size \in RssValues
    /\ InitTrackers
    /\ InitCensus
    /\ InitRun
    /\ last = [op |-> "start", t |-> "None"]

\* one tracker, used in any order a caller may use it
Next ==
    \/ New("t1")
    \/ \E c \in EntryCodes : AddCodeCall("t1", c)
    \/ \E rss \in RssValues : ComputeMemOverhead("t1", rss)
    \/ Enter("t1")
    \/ Exit("t1")
    \/ \E e \in TraceEventKinds, c \in TargetCodes, l \in Lines, rss \in RssValues :
           TraceCall(e, c, l, rss)
    \/ ReadCodeEvents("t1")

\* the bootstrap's reading only shifts the baseline: one value
InitSpec == Init /\ initial_rss_size = 0

Spec == InitSpec /\ [][Next]_vars

\* ------------------------------------ specification: overlapping scopes

\* two trackers and a foreign hook, constructed, entered and left in any
\* order that nested with-statements allow
NextScope ==
    \/ \E t \in Trackers : New(t)
    \/ \E t \in Trackers : AddCodeCall(t, "fn")
    \/ \E t \in Trackers : Enter(t)
    \/ \E t \in Trackers : Exit(t)
    \/ \E h \in ForeignHooks : SetTrace(h)
    \/ \E rss \in RssValues : TraceCall("line", "fn", 1, rss)

\* the bootstrap's reading plays no part in the scopes: one value
InitScope == Init /\ initial_rss_size = 0

SpecScope == InitScope /\ [][NextScope]_vars

\* ------------------------------------------- specification: the census

\* longest new_objects and existing_objects lists explored
MaxNew == 3

MaxExisting == 1

\* lines 227-232 of MemoryProfile.run on any two lists gc could have given
InitCensusSpec ==
    /\ hook = "None"
    /\ initial_rss_size = 0
    /\ InitTrackers
    /\ existing_objects \in SeqsUpTo(Objects, MaxExisting)
    /\ new_objects \in SeqsUpTo(Objects, MaxNew)
    /\ new_obj_count = <<>>
    /\ result_obj_count = <<>>
    /\ pretty_obj_count = <<>>
    /\ pc = "diff"
    /\ mode = "None"
    /\ pending = "None"
    /\ outcome = NoOutcome
    /\ previous = [kind |-> "none", exc |-> "None"]
    /\ heap = <<>>
    /\ hookAsFound = "None"
    /\ fault = NoFault
    /\ last = [op |-> "start", t |-> "None"]

NextCensus ==
    \/ Diff
    \/ SubtractOverhead
    \/ CorrectList
    \/ Format

SpecCensus == InitCensusSpec /\ [][NextCensus]_vars

\* ------------------------------------------------------ MemoryProfile.run

\* the four run_as_* methods get_run_dispatcher chooses from
Modes == {"module", "package_path", "package_in_namespace", "function"}

PackageModes == {"package_path", "package_in_namespace"}

\* the tracker a call of run constructs
prof == "t1"

\* the objects the target creates and frees
TargetObjects == {"l1"}

\* what the target may raise: a request to terminate, or a genuine failure
TargetFailures == {"SystemExit", "ValueError"}

\* the code objects a run_as_* method hands to add_code
CodeOf(m) ==
    CASE m = "function" -> {"fn"}
      [] m = "module" -> {"mod"}
      [] OTHER -> {"mod", "fn"}

\* the code objects whose frames run while the target runs: its own entry
\* code and library code
FramesOf(m) == IF m = "function" THEN {"fn", "lib"} ELSE {"mod", "lib"}

\* the exception a target that cannot be loaded raises before the with
\* statement: open() in run_as_module, get_package_code() in run_as_package_*
LoadFailure(m) == IF m = "module" THEN "IOError" ELSE "ImportError"

\* the exception compile() raises, inside the with statement of
\* run_as_module, for a source file that cannot be compiled
CompileFailure == "SyntaxError"

\* the objects of the profiler itself that the second gc.get_objects() lists:
\* those obj_overhead counts, and the existing_objects list
ProfilerObjects ==
    <<"prof", "prof._resulting_events", "prof._events_list", "prof._all_code",
      "prof.__dict__", "module.__dict__", "existing_objects">>

\* registering every code object of codes, one add_code call after another
RECURSIVE AddCodes(_, _)
AddCodes(registry, codes) ==
    IF codes = {} THEN registry
    ELSE LET c == CHOOSE x \in codes : TRUE
         IN AddCodes(AddCode(registry, c), codes \ {c})

\* whether the except SystemExit clause inside the with statement (lines 182
\* and 208) catches exception e in mode m
CaughtInsideScope(m, e) == m \in PackageModes /\ e = "SystemExit"

\* whether the except SystemExit clause around the with statement (line 195)
\* catches exception e in mode m
CaughtAroundScope(m, e) == m = "module" /\ e = "SystemExit"

\* the exception the caller of run receives for exception e of the target:
\* the exception itself, with nothing wrapped in it
Propagated(e) == [exc |-> e, cause |-> "None"]

\* run gives its caller an exception
RaiseToCaller(e) ==
    /\ outcome' = [NoOutcome EXCEPT !.kind = "raised", !.exc = Propagated(e).exc,
                                    !.cause = Propagated(e).cause]
    /\ UNCHANGED previous
    /\ pc' = "idle"

\* lines 222-223: run is called; the tracker of an earlier call is gone
RunStart(m) ==
    /\ pc = "idle"
    /\ scopes = <<>>
    /\ previous' = [kind |-> outcome.kind, exc |-> outcome.exc]
    /\ mode' = m
    /\ existing_objects' = heap
    /\ new_objects' = <<>>
    /\ new_obj_count' = <<>>
    /\ result_obj_count' = <<>>
    /\ pretty_obj_count' = <<>>
    /\ hookAsFound' = hook
    /\ outcome' = NoOutcome
    /\ pending' = "None"
    /\ fault' = NoFault
    /\ constructed' = [constructed EXCEPT ![prof] = FALSE]
    /\ all_code' = [all_code EXCEPT ![prof] = {}]
    /\ events_list' = [events_list EXCEPT ![prof] = <<>>]
    /\ original_trace_function' = [original_trace_function EXCEPT ![prof] = "None"]
    /\ resulting_events' = [resulting_events EXCEPT ![prof] = <<>>]
    /\ mem_overhead' = [mem_overhead EXCEPT ![prof] = None]
    /\ reads' = [reads EXCEPT ![prof] = FreshReads]
    /\ pc' = IF m = "function" THEN "construct" ELSE "load"
    /\ last' = [op |-> "run", t |-> m]
    /\ UNCHANGED <<hook, initial_rss_size, scopes, hookAtEnter, heap>>

\* lines 174, 189, 201: the target is opened or its package code collected
LoadTarget(ok) ==
    /\ pc = "load"
    /\ IF ok
       THEN /\ pc' = "construct"
            /\ last' = [op |-> "loaded", t |-> mode]
            /\ UNCHANGED <<outcome, previous, fault>>
       ELSE /\ RaiseToCaller(LoadFailure(mode))
            /\ fault' = [by |-> "load", exc |-> LoadFailure(mode)]
            /\ last' = [op |-> "load failed", t |-> mode]
    /\ UNCHANGED <<hook, initial_rss_size, trackerVars, scopes, hookAtEnter, reads>>
    /\ UNCHANGED <<censusVars, mode, pending, heap, hookAsFound>>

\* _CodeEventsTracker() of the with statement
Construct ==
    /\ pc = "construct"
    /\ InitEffect(prof)
    /\ pc' = "enter"
    /\ last' = [op |-> "__init__", t |-> prof]
    /\ UNCHANGED <<censusVars, runRest>>

\* __enter__ of the with statement
EnterScope ==
    /\ pc = "enter"
    /\ EnterEffect(prof)
    /\ pc' = IF mode = "module" THEN "compile" ELSE "register"
    /\ last' = [op |-> "__enter__", t |-> prof]
    /\ UNCHANGED <<censusVars, runRest>>

\* line 191: compile(srcfile.read(), ...), inside the with statement
Compile(ok) ==
    /\ pc = "compile"
    /\ IF ok
       THEN /\ pc' = "register"
            /\ last' = [op |-> "compiled", t |-> mode]
            /\ UNCHANGED <<pending, fault>>
       ELSE /\ pending' = CompileFailure
            /\ fault' = [by |-> "compile", exc |-> CompileFailure]
            /\ pc' = "exit"
            /\ last' = [op |-> "compile failed", t |-> mode]
    /\ UNCHANGED <<hook, initial_rss_size, trackerVars, scopes, hookAtEnter, reads>>
    /\ UNCHANGED <<censusVars, mode, outcome, previous, heap, hookAsFound>>

\* the add_code calls of lines 177-178, 192, 203-204, 215
Register ==
    /\ pc = "register"
    /\ all_code' = [all_code EXCEPT ![prof] = AddCodes(all_code[prof], CodeOf(mode))]
    /\ pc' = "baseline"
    /\ last' = [op |-> "add_code", t |-> prof]
    /\ UNCHANGED <<hook, initial_rss_size, constructed, events_list,
                   original_trace_function, resulting_events, mem_overhead,
                   scopes, hookAtEnter, reads>>
    /\ UNCHANGED <<censusVars, runRest>>

\* prof.compute_mem_overhead()
Baseline(rss) ==
    /\ pc = "baseline"
    /\ ComputeMemOverheadEffect(prof, rss)
    /\ pc' = "exec"
    /\ last' = [op |-> "compute_mem_overhead", t |-> prof]
    /\ UNCHANGED <<censusVars, runRest>>

\* between __enter__ and the start of the target the hook is installed, and
\* the interpreter calls it for the steps of the profiler's own methods
\* (add_code, compute_mem_overhead, _get_memory_usage_for_process)
ProfilerStep(event, lineno, rss) ==
    /\ pc \in {"compile", "register", "baseline"}
    /\ TraceEffect(event, "vprof", lineno, rss)
    /\ last' = [op |-> "profiler step", t |-> "None"]
    /\ UNCHANGED <<censusVars, runVars>>

\* the target runs one step with tracing on: the interpreter calls the hook
TargetStep(event, code, lineno, rss) ==
    /\ pc = "exec"
    /\ code \in FramesOf(mode)
    /\ TraceEffect(event, code, lineno, rss)
    /\ last' = [op |-> "target step", t |-> "None"]
    /\ UNCHANGED <<censusVars, runVars>>

\* the target creates an object and keeps it
TargetAlloc(o) ==
    /\ pc = "exec"
    /\ \A k \in 1..Len(heap) : heap[k] # o
    /\ heap' = Append(heap, o)
    /\ last' = [op |-> "target step", t |-> "None"]
    /\ UNCHANGED <<hook, initial_rss_size, trackerVars, scopes, hookAtEnter, reads>>
    /\ UNCHANGED <<censusVars, pc, mode, pending, outcome, previous, hookAsFound, fault>>

\* the target drops the last reference to one of its objects
TargetFree(o) ==
    /\ pc = "exec"
    /\ \E k \in 1..Len(heap) : heap[k] = o
    /\ heap' = SelectSeq(heap, LAMBDA x : x # o)
    /\ last' = [op |-> "target step", t |-> "None"]
    /\ UNCHANGED <<hook, initial_rss_size, trackerVars, scopes, hookAtEnter, reads>>
    /\ UNCHANGED <<censusVars, pc, mode, pending, outcome, previous, hookAsFound, fault>>

\* the target runs to its end
TargetReturns ==
    /\ pc = "exec"
    /\ pc' = "exit"
    /\ last' = [op |-> "target returned", t |-> mode]
    /\ UNCHANGED <<hook, initial_rss_size, trackerVars, scopes, hookAtEnter, reads>>
    /\ UNCHANGED <<censusVars, runRest>>

\* the target raises e; the except clause inside the with statement, where
\* there is one, catches SystemExit
TargetRaises(e) ==
    /\ pc = "exec"
    /\ fault' = [by |-> "target", exc |-> e]
    /\ pending' = IF CaughtInsideScope(mode, e) THEN "None" ELSE e
    /\ pc' = "exit"
    /\ last' = [op |-> "target raised", t |-> e]
    /\ UNCHANGED <<hook, initial_rss_size, trackerVars, scopes, hookAtEnter, reads>>
    /\ UNCHANGED <<censusVars, mode, outcome, previous, heap, hookAsFound>>

\* __exit__ of the with statement, which returns None: an exception in
\* flight goes on to the except clause around the with statement, if there
\* is one, and from there to the caller of run; otherwise prof is returned
ExitScope ==
    /\ pc = "exit"
    /\ ExitEffect(prof)
    /\ IF pending = "None" \/ CaughtAroundScope(mode, pending)
       THEN /\ pending' = "None"
            /\ pc' = "after"
            /\ UNCHANGED <<outcome, previous>>
       ELSE /\ RaiseToCaller(pending)
            /\ pending' = "None"
    /\ last' = [op |-> "__exit__", t |-> prof]
    /\ UNCHANGED <<censusVars, mode, heap, hookAsFound, fault>>

\* lines 225-238, after the dispatcher returned prof: the second snapshot
\* (the objects of the target and the profiler's own), the census, and the
\* result, which reads prof.code_events twice
Finish ==
    /\ pc = "after"
    /\ LET new == heap \o ProfilerObjects
           count == GetObjCountDifference(new, existing_objects)
           result == ListCorrection(CounterSub(count, ObjOverhead))
           log == events_list[prof]
           overhead == mem_overhead[prof]
           first == CodeEvents(resulting_events[prof], log, overhead)
           second == CodeEvents(first, log, overhead)
       IN /\ new_objects' = new
          /\ new_obj_count' = count
          /\ result_obj_count' = result
          /\ pretty_obj_count' = FormatObjCount(result)
          /\ resulting_events' = [resulting_events EXCEPT ![prof] = second]
          /\ reads' = [reads EXCEPT ![prof] =
                 ReadsAfter(ReadsAfter(reads[prof], resulting_events[prof], log,
                                       overhead),
                            first, log, overhead)]
          /\ outcome' = [NoOutcome EXCEPT !.kind = "returned",
                                          !.codeEvents = first,
                                          !.totalEvents = Len(second),
                                          !.objectsCount = FormatObjCount(result)]
    /\ UNCHANGED previous
    /\ pc' = "idle"
    /\ last' = [op |-> "returned", t |-> mode]
    /\ UNCHANGED <<hook, initial_rss_size, constructed, all_code, events_list,
                   original_trace_function, mem_overhead, scopes, hookAtEnter>>
    /\ UNCHANGED <<existing_objects, mode, pending, heap, hookAsFound, fault>>

\* a host program that may install a hook of its own between calls of run
NextRun ==
    \/ \E m \in Modes : RunStart(m)
    \/ \E ok \in BOOLEAN : LoadTarget(ok)
    \/ Construct
    \/ EnterScope
    \/ \E ok \in BOOLEAN : Compile(ok)
    \/ Register
    \/ \E rss \in RssValues : Baseline(rss)
    \/ \E e \in TraceEventKinds, l \in Lines, rss \in RssValues :
           ProfilerStep(e, l, rss)
    \/ \E e \in TraceEventKinds, c \in Codes, l \in Lines, rss \in RssValues :
           TargetStep(e, c, l, rss)
    \/ \E o \in TargetObjects : TargetAlloc(o)
    \/ \E o \in TargetObjects : TargetFree(o)
    \/ TargetReturns
    \/ \E e \in TargetFailures : TargetRaises(e)
    \/ ExitScope
    \/ Finish
    \/ \E h \in ForeignHooks : pc = "idle" /\ SetTrace(h)

\* the bootstrap's reading only shifts the baseline: one value
InitRunSpec == Init /\ initial_rss_size = 0

SpecRun == InitRunSpec /\ [][NextRun]_vars

\* ----------------------------------------------------------------- claims

\* C1: after __exit__ the process-wide trace hook is the hook that was
\* installed at the moment the scope was entered.
ExitRestoresHookFoundAtEnter ==
    \A t \in Trackers :
        last = [op |-> "__exit__", t |-> t] => hook = hookAtEnter[t]

\* C2: at most one tracer scope is active at any time (a second __enter__
\* is rejected while another scope is open).
AtMostOneActiveTracer == Len(scopes) <= 1

\* the location (line, unit name, file name) of a raw event
Loc(ev) == <<At(ev, 0), At(ev, 2), At(ev, 3)>>

\* the positions of a raw log at which a maximal run of one location starts
RunStarts(log) ==
    {i \in 1..Len(log) : i = 1 \/ Loc(log[i]) # Loc(log[i - 1])}

\* the last position of the maximal run that starts at position i
RunEnd(log, i) ==
    CHOOSE j \in i..Len(log) :
        /\ \A k \in i..j : Loc(log[k]) = Loc(log[i])
        /\ j = Len(log) \/ Loc(log[j + 1]) # Loc(log[i])

\* the largest raw memory reading at positions i..j of a raw log
MaxMem(log, i, j) ==
    CHOOSE m \in {At(log[k], 1).num : k \in i..j} :
        \A k \in i..j : At(log[k], 1).num <= m

\* C7: every maximal run of consecutive raw events of one location has
\* exactly one coalesced event, whose memory value is the largest
\* baseline-corrected value of the run.
MonotonicMax ==
    \A t \in Trackers :
        (reads[t].latest # None /\ reads[t].passes = 1 /\ reads[t].log # <<>>) =>
            LET res == reads[t].latest[1]
                log == reads[t].log
            IN \A i \in RunStarts(log) :
                   /\ Cardinality({k \in 1..Len(res) :
                          /\ At(res[k], 0).num >= i
                          /\ At(res[k], 0).num <= RunEnd(log, i)}) = 1
                   /\ \A k \in 1..Len(res) :
                          At(res[k], 0).num = i =>
                              PyEq(At(res[k], 2),
                                   MemInMb(PyInt(MaxMem(log, i, RunEnd(log, i))),
                                           reads[t].overhead[1]))

\* C8: once code_events has been read, every later read returns a value
\* equal to the one the first read returned, and the loop is not run again.
CodeEventsMemoized ==
    \A t \in Trackers :
        reads[t].first # None =>
            /\ reads[t].latest = reads[t].first
            /\ reads[t].passes <= 1

\* C3: in every run mode, a target that requests termination (SystemExit)
\* makes run return a result with the events captured up to that point; the
\* request does not reach the caller.
TerminationIsNormalCompletion ==
    (pc = "idle" /\ fault = [by |-> "target", exc |-> "SystemExit"]) =>
        /\ outcome.kind = "returned"
        /\ outcome.codeEvents =
               CodeEvents(<<>>, events_list[prof], mem_overhead[prof])

\* C4 as stated: a failure of the target other than SystemExit reaches the
\* caller as a TargetExecutionError that wraps the original failure, with
\* the hook restored.
TargetFailureWrapped ==
    (pc = "idle" /\ last.op = "__exit__" /\ fault.by = "target"
         /\ fault.exc # "SystemExit") =>
        /\ outcome.kind = "raised"
        /\ outcome.exc = "TargetExecutionError"
        /\ outcome.cause = fault.exc
        /\ hook = hookAsFound

\* C4, amended: a failure of the target other than SystemExit reaches the
\* caller as that same exception, unwrapped, with the hook as run found it
\* and no scope left open; and in a call of run that follows a call that
\* raised, the tracker's hook is installed while the target runs and, when
\* nothing fails, a result is returned.
TargetFailurePropagates ==
    /\ (pc = "idle" /\ last.op = "__exit__" /\ fault.by = "target"
            /\ fault.exc # "SystemExit") =>
           /\ outcome.kind = "raised"
           /\ outcome.exc = fault.exc
           /\ outcome.cause = "None"
           /\ hook = hookAsFound
           /\ scopes = <<>>
    /\ (previous.kind = "raised" /\ pc = "exec") =>
           /\ hook = prof
           /\ original_trace_function[prof] = hookAsFound
    /\ (previous.kind = "raised" /\ pc = "idle" /\ outcome.kind # "none"
            /\ fault = NoFault) =>
           /\ outcome.kind = "returned"
           /\ hook = hookAsFound \/ last.op = "settrace"

\* C4 witness: a call of run whose target raised ValueError was followed by
\* a call that returned a result with an event in it, under a foreign hook
RunAfterFailureReturned ==
    /\ pc = "idle"
    /\ previous = [kind |-> "raised", exc |-> "ValueError"]
    /\ outcome.kind = "returned"
    /\ outcome.totalEvents > 0
    /\ hookAsFound = "ext"
    /\ hook = "ext"

\* C5: when the target cannot be loaded or compiled, the failure is raised
\* before any tracker is constructed or entered and with the hook untouched.
LoadFailureBeforeTracer ==
    last.op \in {"load failed", "compile failed"} =>
        /\ ~constructed[prof]
        /\ scopes = <<>>
        /\ hook = hookAsFound

\* the distinct objects of a type that a list of objects holds, frames aside
Instances(objs, ty) ==
    {o \in {objs[k] : k \in 1..Len(objs)} : TypeOf(o) = ty /\ ~IsFrame(o)}

Types == {TypeOf(o) : o \in Objects} \cup {ObjOverhead[k][1] : k \in 1..Len(ObjOverhead)}

\* the count the two-step subtraction defines for a type, signed
SignedCount(ty) ==
    Cardinality(Instances(new_objects, ty))
        - Cardinality(Instances(existing_objects, ty))
        - CounterGet(ObjOverhead, ty)
        - (IF ty = "list" THEN 1 ELSE 0)

\* C6: objectsCount never contains an entry whose count is <= 0.
NoNonPositiveCount ==
    pc = "assemble" =>
        \A k \in 1..Len(pretty_obj_count) : pretty_obj_count[k][2] > 0

\* the types the profiler itself never allocates
TargetTypes ==
    {ty \in Types : ty # "list" /\ ty # "frame" /\ CounterGet(ObjOverhead, ty) = 0}

\* the instances of a type the target created and kept, when it freed none
Retained(ty) ==
    IF Instances(existing_objects, ty) \subseteq Instances(new_objects, ty)
    THEN Cardinality(Instances(new_objects, ty) \ Instances(existing_objects, ty))
    ELSE 0

\* C9: when the target creates n > 0 instances of a type the profiler does
\* not allocate and keeps them, freeing none, objectsCount has one entry for
\* that type and its count is n.
ExactCountOfTargetType ==
    pc = "assemble" =>
        \A ty \in TargetTypes :
            Retained(ty) > 0 =>
                /\ \E k \in 1..Len(pretty_obj_count) :
                       pretty_obj_count[k] = <<ReprName(ty), Retained(ty)>>
                /\ Cardinality({k \in 1..Len(pretty_obj_count) :
                       pretty_obj_count[k][1] = ReprName(ty)}) = 1

\* C9 witness: the target created two instances of A and kept them, and the
\* table was formatted
TwoInstancesRetained ==
    /\ pc = "assemble"
    /\ Instances(existing_objects, "A") = {}
    /\ Retained("A") = 2
    /\ Len(new_objects) = 3

\* the first half of C10: the diff is after - before, negative or not
DiffKeepsNegatives ==
    pc \in {"overhead", "list", "format", "assemble"} =>
        \A ty \in Types \ {"frame"} :
            CounterGet(new_obj_count, ty) =
                Cardinality(Instances(new_objects, ty))
                    - Cardinality(Instances(existing_objects, ty))

\* the second half of C10: what is reported is the signed count, where > 0
ReportedIsSignedCountAboveZero ==
    pc = "assemble" =>
        {pretty_obj_count[k] : k \in 1..Len(pretty_obj_count)} =
            {<<ReprName(ty), SignedCount(ty)>> :
                 ty \in {x \in Types \ {"frame"} : SignedCount(x) > 0}}

\* C10: the diff keeps after - before for every type, negative or not, and
\* objectsCount is the signed count after - before - overhead - [list],
\* restricted to the values > 0.
SignedSubtractionChain == DiffKeepsNegatives /\ ReportedIsSignedCountAboveZero

\* the position in the second snapshot at which a type of the given display
\* name is first met, frames aside; past the end when it is never met
FirstSeen(name) ==
    LET at == {i \in 1..Len(new_objects) :
                  /\ ~IsFrame(new_objects[i])
                  /\ ReprName(TypeOf(new_objects[i])) = name}
    IN IF at = {} THEN Len(new_objects) + 1
       ELSE CHOOSE i \in at : \A j \in at : i <= j

\* C11: objectsCount is sorted in descending order of count, and entries
\* with equal counts appear in the order in which their types were first met
\* in the census.
SortedDescendingStable ==
    pc = "assemble" =>
        \A k \in 1..Len(pretty_obj_count) :
            \A j \in (k + 1)..Len(pretty_obj_count) :
                /\ pretty_obj_count[k][2] >= pretty_obj_count[j][2]
                /\ pretty_obj_count[k][2] = pretty_obj_count[j][2] =>
                       FirstSeen(pretty_obj_count[k][1])
                           < FirstSeen(pretty_obj_count[j][1])

\* C11 witness: a formatted table with two entries of equal count and a
\* third entry of another count
TieAndStrictDescent ==
    /\ pc = "assemble"
    /\ Len(pretty_obj_count) = 3
    /\ pretty_obj_count[1][2] = pretty_obj_count[2][2]
    /\ pretty_obj_count[2][2] > pretty_obj_count[3][2]

\* C12: the coalesced events are never more than the raw events: what a read
\* of code_events returns, and the result list it leaves, is no longer than
\* the raw log.
CoalescedNoLongerThanRaw ==
    \A t \in Trackers :
        /\ Len(resulting_events[t]) <= Len(events_list[t])
        /\ reads[t].latest # None =>
               /\ Len(reads[t].latest[1]) <= Len(reads[t].log)
               /\ Len(reads[t].latest[1]) <= Len(events_list[t])

\* C12 witness: code_events was read over a raw log of two events or more
\* and gave a result that is not empty
ReadOverTwoRawEvents ==
    /\ last = [op |-> "code_events", t |-> "t1"]
    /\ Len(reads["t1"].log) >= 2
    /\ reads["t1"].latest # None
    /\ reads["t1"].latest[1] # <<>>
    /\ reads["t1"].passes = 1
    /\ resulting_events["t1"] = reads["t1"].first[1]

\* a call of run in module mode has returned, and its target ran exactly one
\* line step of registered code, at line 1 of the module body
SingleStatementModuleRan ==
    /\ pc = "idle"
    /\ mode = "module"
    /\ outcome.kind = "returned"
    /\ events_list[prof] = <<RawEvent(1, At(events_list[prof][1], 1).num, "mod")>>

StatedStep(res, n, ev, overhead) ==
    LET value == MemInMb(At(ev, 1), overhead)
    IN IF /\ res # <<>>
          /\ PyEq(At(Last(res), 1), At(ev, 0))
          /\ PyEq(At(Last(res), 3), At(ev, 2))
          /\ PyEq(At(Last(res), 4), At(ev, 3))
          /\ PyLt(At(Last(res), 2), value)
       THEN SetAt(res, Len(res) - 1, SetAt(Last(res), 2, value))
       ELSE Append(res, <<PyInt(n), At(ev, 0), value, At(ev, 2), At(ev, 3)>>)

\* C14: walking the raw log in arrival order, a raw event at the location of
\* the last emitted event and with a larger corrected value updates that
\* event's value in place and appends nothing; every other raw event appends
\* a new event whose index is its 1-based position in the raw log.
CoalescingStepAsStated ==
    \A t \in Trackers :
        (reads[t].latest # None /\ reads[t].passes = 1 /\ reads[t].log # <<>>) =>
            LET log == reads[t].log
                overhead == reads[t].overhead[1]
            IN /\ reads[t].latest[1] = Coalesce(<<>>, log, Len(log), overhead)
               /\ \A n \in 1..Len(log) :
                      Coalesce(<<>>, log, n, overhead) =
                          StatedStep(Coalesce(<<>>, log, n - 1, overhead), n,
                                     log[n], overhead)

\* a is a prefix of b
IsPrefix(a, b) == Len(a) <= Len(b) /\ SubSeq(b, 1, Len(a)) = a

\* C15: the hook appends exactly one raw event (line number, resident
\* memory, unit name, file name) for a 'line' step of a registered unit and
\* leaves the raw log as it was for every other step kind and every
\* unregistered unit; and the raw log of a tracker is append-only: whatever
\* is done, the earlier log is a prefix of the later one.
HookAppendsQualifyingLineSteps ==
    /\ [](\A t \in {x \in Trackers : constructed[x]} :
             \A e \in TraceEventKinds, c \in Codes, l \in Lines, rss \in RssValues :
                 TraceMemoryUsage(events_list[t], all_code[t], e, c, l, rss) =
                     IF e = "line" /\ c \in all_code[t]
                     THEN events_list[t] \o
                              <<<<PyInt(l), PyInt(rss), PyStr(co_name(c)),
                                  PyStr(co_filename(c))>>>>
                     ELSE events_list[t])
    /\ [][\A t \in Trackers :
             /\ constructed[t] => IsPrefix(events_list[t], events_list'[t])
             /\ events_list'[t] # events_list[t] =>
                    /\ last' = [op |-> "trace", t |-> t]
                    /\ hook = t
                    /\ Len(events_list'[t]) = Len(events_list[t]) + 1
                    /\ At(Last(events_list'[t]), 2).s
                           \in {co_name(c) : c \in all_code[t]}]_vars

\* C15 witness: the hook has just run, the registry holds the module body
\* and what is nested in it but not the library code, and the raw log holds
\* two events of different units
HookRecordedTwoUnits ==
    /\ last = [op |-> "trace", t |-> "t1"]
    /\ all_code["t1"] = {"mod", "fn", "inner"}
    /\ Len(events_list["t1"]) = 2
    /\ At(events_list["t1"][1], 2) # At(events_list["t1"][2], 2)

\* S and what is nested in the units of S, n levels deep
RECURSIVE NestedWithin(_, _)
NestedWithin(S, n) ==
    IF n = 0 THEN S
    ELSE NestedWithin(S \cup UNION {CoConsts(x) : x \in S}, n - 1)

\* a unit and every unit reachable from it through nested code constants
NestedUnits(c) == NestedWithin({c}, Cardinality(Codes))

\* C16: add_code(entry) leaves the registry equal to what it was plus the
\* entry unit and every unit reachable from it through nested code
\* constants; registering a registered unit changes nothing; and after any
\* sequence of add_code calls the registry holds, with every unit, the units
\* nested in it.
AddCodeClosesRegistry ==
    \A t \in {x \in Trackers : constructed[x]} :
        /\ \A c \in all_code[t] : CoConsts(c) \subseteq all_code[t]
        /\ \A c \in Codes :
               /\ AddCode(all_code[t], c) = all_code[t] \cup NestedUnits(c)
               /\ c \in all_code[t] => AddCode(all_code[t], c) = all_code[t]

\* C16 witness: add_code has just been called on a registry that held the
\* function already (a step of it is in the raw log), and the registry holds
\* the module body, the function and what is nested in it
RegisteredOverRegisteredFunction ==
    /\ last = [op |-> "add_code", t |-> "t1"]
    /\ all_code["t1"] = {"mod", "fn", "inner"}
    /\ events_list["t1"] # <<>>
    /\ At(events_list["t1"][1], 2) = PyStr("fn")

\* the position of the first occurrence of object o in a list that holds it
FirstAt(objs, o) ==
    CHOOSE i \in 1..Len(objs) : objs[i] = o /\ \A j \in 1..(i - 1) : objs[j] # o

\* out is exactly the non-frame objects of objs, each once, in the order of
\* their first occurrence in objs
IsProcessed(objs, out) ==
    /\ {out[k] : k \in 1..Len(out)} =
           {o \in {objs[k] : k \in 1..Len(objs)} : ~IsFrame(o)}
    /\ \A i, j \in 1..Len(out) :
           i < j => out[i] # out[j] /\ FirstAt(objs, out[i]) < FirstAt(objs, out[j])

\* C17: processing a snapshot gives exactly its non-frame objects, each
\* identity once, in the order of first occurrence; frames never appear in
\* the result and never contribute to a type count.
ProcessingKeepsFirstNonFrames ==
    /\ pc = "overhead" =>
           /\ IsProcessed(new_objects, ProcessInMemoryObjects(new_objects))
           /\ IsProcessed(existing_objects, ProcessInMemoryObjects(existing_objects))
           /\ \A k \in 1..Len(new_obj_count) : new_obj_count[k][1] # "frame"
           /\ \A ty \in Types \ {"frame"} :
                  CounterGet(new_obj_count, ty) =
                      IF Cardinality(Instances(new_objects, ty))
                             > Cardinality(Instances(existing_objects, ty))
                      THEN Cardinality(Instances(new_objects, ty))
                               - Cardinality(Instances(existing_objects, ty))
                      ELSE 0
    /\ pc = "assemble" =>
           \A k \in 1..Len(pretty_obj_count) : pretty_obj_count[k][1] # "frame"

\* C17 witness: the difference was taken over a second snapshot that lists
\* one object twice with a frame in between
DuplicateAndFrameProcessed ==
    /\ pc = "overhead"
    /\ new_objects = <<"a1", "fr", "a1">>
    /\ new_obj_count = <<<<"A", 1>>>>

\* C18: within one call of run, in every mode: the first snapshot is taken,
\* then the tracker's scope is entered, then the code units are registered
\* and the baseline computed, then the target runs, then the scope is left,
\* then the second snapshot is taken and the difference and the overhead
\* subtraction computed.  No raw event is recorded before the baseline is
\* computed, and the hook is not the tracker's when the second snapshot is
\* taken.
RunStepsInOrder ==
    /\ pc \in {"load", "construct", "enter"} =>
           /\ existing_objects = heap
           /\ hook # prof /\ scopes = <<>>
           /\ all_code[prof] = {} /\ mem_overhead[prof] = None
           /\ new_objects = <<>>
    /\ pc \in {"compile", "register", "baseline", "exec", "exit"} =>
           /\ hook = prof /\ scopes = <<prof>>
           /\ new_objects = <<>>
    /\ pc \in {"compile", "register"} =>
           /\ all_code[prof] = {}
           /\ mem_overhead[prof] = None
    /\ pc = "baseline" =>
           /\ CodeOf(mode) \subseteq all_code[prof]
           /\ mem_overhead[prof] = None
    /\ pc = "exec" =>
           /\ CodeOf(mode) \subseteq all_code[prof]
           /\ mem_overhead[prof] # None
    /\ mem_overhead[prof] = None => events_list[prof] = <<>>
    /\ pc = "after" =>
           /\ hook # prof /\ scopes = <<>>
           /\ new_objects = <<>> /\ new_obj_count = <<>>
    /\ last.op = "returned" =>
           /\ hook # prof /\ scopes = <<>>
           /\ new_objects = heap \o ProfilerObjects
           /\ new_obj_count = GetObjCountDifference(new_objects, existing_objects)
           /\ result_obj_count =
                  ListCorrection(CounterSub(new_obj_count, ObjOverhead))

\* C18 witness: a call of run on a package has gone through every step and
\* returned two events, the target having kept an object
PackageRunWentThroughEveryStep ==
    /\ last = [op |-> "returned", t |-> "package_path"]
    /\ outcome.totalEvents = 2
    /\ heap # <<>>
    /\ existing_objects = <<>>
    /\ mem_overhead[prof] # None

\* event e of a result carries the line number, unit name and file name of
\* the raw event at the 1-based position of log that its index names
CarriesRawFields(e, log) ==
    /\ At(e, 0).ty = "int"
    /\ At(e, 0).num \in 1..Len(log)
    /\ At(e, 1) = At(log[At(e, 0).num], 0)
    /\ At(e, 3) = At(log[At(e, 0).num], 2)
    /\ At(e, 4) = At(log[At(e, 0).num], 3)

Indices(res) == [k \in 1..Len(res) |-> At(res[k], 0).num]

\* C20: the sequence indices of codeEvents are strictly increasing, each
\* lies in 1..len(rawLog), and when the raw log is not empty codeEvents is
\* not empty and its first event has index 1.
IndicesIncreaseFromOne ==
    \A t \in Trackers :
        reads[t].latest # None =>
            LET res == reads[t].latest[1]
            IN /\ \A k \in 1..Len(res) :
                      /\ At(res[k], 0).ty = "int"
                      /\ Indices(res)[k] \in 1..Len(reads[t].log)
                      /\ Indices(res)[k] \in 1..Len(events_list[t])
               /\ \A j, k \in 1..Len(res) : j < k => Indices(res)[j] < Indices(res)[k]
               /\ (last = [op |-> "code_events", t |-> t] /\ events_list[t] # <<>>) =>
                      /\ res # <<>>
                      /\ Indices(res)[1] = 1

\* C20 witness: a read of code_events has just returned two events, indexed
\* 1 and 2, of two different lines
ReadGaveTwoIndexedEvents ==
    /\ last = [op |-> "code_events", t |-> "t1"]
    /\ reads["t1"].latest # None
    /\ Len(reads["t1"].latest[1]) = 2
    /\ Indices(reads["t1"].latest[1]) = <<1, 2>>
    /\ At(reads["t1"].latest[1][1], 1) # At(reads["t1"].latest[1][2], 1)

====
